---- MODULE Spec2Model ----
(***************************************************************************)
(* Protocol core of libviv (p00ya/vivian): packet framing and CRC, burst   *)
(* sequencing, the command state machines and the protocol manager.        *)
(* Bytes are integers 0..255; a VLPacket is its 20-byte struct image.      *)
(* Record fields are written in the order in which their names first occur *)
(* in the module, the order TLC keeps them in.                             *)
(***************************************************************************)
EXTENDS Integers, Sequences, FiniteSets, TLC

VARIABLES command_, response_, events, op, arg, prev, finished, started,
          aborted, busy_, call, at, nested, fn, input, output, waits

vars ==
  <<command_, response_, events, op, arg, prev, finished, started, aborted,
    waits>>

(* ------------------------------ bounds --------------------------------- *)

\* Largest reply buffer a download in flight may hold.
MaxBuf == 32

\* Most entries of a directory blob given to the directory reader.
MaxEntries == 3

\* Longest of the arbitrary sequences of packets given to a burst.
MaxBurst == 2

\* Largest distance from zero of the tally of waits.
MaxWaits == 1

(* ------------------------- bit and byte helpers ------------------------ *)

RECURSIVE XorBits(_, _, _)
XorBits(a, b, n) ==
  IF n = 0 THEN 0
  ELSE (((a % 2) + (b % 2)) % 2) + 2 * XorBits(a \div 2, b \div 2, n - 1)

XorTable == [a \in 0..255 |-> [b \in 0..255 |-> XorBits(a, b, 8)]]

Xor8(a, b) == XorTable[a][b]

And1f(x) == x % 32

kPoly == 7

RECURSIVE crc8_precalc_loop(_, _)
crc8_precalc_loop(x, i) ==
  IF i = 8 THEN x
  ELSE crc8_precalc_loop(
         IF x >= 128 THEN Xor8((2 * x) % 256, kPoly) ELSE (2 * x) % 256,
         i + 1)

crc8_precalc(x) == crc8_precalc_loop(x, 0)

lookup == [i \in 0..255 |-> crc8_precalc(i)]

RECURSIVE crc_loop(_, _, _)
crc_loop(data, p, c) ==
  IF p > Len(data) THEN c
  ELSE crc_loop(data, p + 1, lookup[Xor8(c, data[p])])

crc(data) == crc_loop(data, 1, 0)

\* endian.hpp, offsets are 0-based as in the source
OSReadLittleInt16(p, offset) == p[offset + 1] + (256 * p[offset + 2])

\* A uint32_t is kept as << high 16 bits, low 16 bits >>.
U32(hi, lo) == << hi, lo >>

U32Gt(a, b) == a[1] > b[1] \/ (a[1] = b[1] /\ a[2] > b[2])

OSReadLittleInt32(p, offset) ==
  U32(p[offset + 3] + (256 * p[offset + 4]),
      p[offset + 1] + (256 * p[offset + 2]))

VLWriteLittleInt16(x) == << x % 256, (x \div 256) % 256 >>

VLWriteLittleInt32(x) ==
  << x[2] % 256, (x[2] \div 256) % 256, x[1] % 256, (x[1] \div 256) % 256 >>

Fill(n, b) == [i \in 1..n |-> b]

(* ------------------------------- packet -------------------------------- *)

kPacketOffsetLength == 1
kPacketOffsetPayload == 6
kPacketMinLength == 6
kPacketMaxLength == 20
kPeerHost == 3
kPeerViiiiva == 1
kSeqnoModulus == 6
kVLSeqnoStart == 0
kVLSeqnoEnd == 7

\* Field accessors of the packed struct VLPacket (20 bytes).
PktCrc(packet) == packet[1]
PktPayloadLength(packet) == packet[2]
PktSender(packet) == packet[3]
PktReceiver(packet) == packet[4]
PktCmd(packet) == SubSeq(packet, 5, 6)
PktPayload(packet) == SubSeq(packet, 7, 20)

VLPacketLength(packet) == PktPayloadLength(packet) + kPacketOffsetPayload

VLPacketSeqno(packet) == PktCrc(packet) \div 32

\* Mutant: the ring is 1..7.
VLGetNextSeqno_Seven(seqno) == (seqno % (kSeqnoModulus + 1)) + 1

VLGetNextSeqno(seqno) == (seqno % kSeqnoModulus) + 1

\* Mutant: sequence number 0 matches nothing.
VLDoesSeqnoMatch_NoZero(seqno, expected) ==
  seqno # 0 /\ (seqno = expected \/ seqno = kVLSeqnoEnd)

VLDoesSeqnoMatch(seqno, expected) == seqno = expected \/ seqno = kVLSeqnoEnd

\* The struct image with the given peers; crc over bytes [1 .. 6+N).
MakeStruct(seqno, sender, receiver, cmd, payload) ==
  LET body == << Len(payload), sender, receiver >> \o VLWriteLittleInt16(cmd)
                \o payload
      first == ((seqno * 32) % 256) + And1f(crc(body))
  IN  << first >> \o body \o Fill(14 - Len(payload), 0)

\* Mutant: the peers are those of a packet from the device.
VLMakePacket_FromDevice(seqno, cmd, payload) ==
  MakeStruct(seqno, kPeerViiiiva, kPeerHost, cmd, payload)

VLMakePacket(seqno, cmd, payload) ==
  MakeStruct(seqno, kPeerHost, kPeerViiiiva, cmd, payload)

VLMakeAckPacket(cmd) ==
  VLMakePacket(kVLSeqnoEnd, IF cmd >= 32768 THEN cmd ELSE cmd + 32768, << >>)

\* Mutant: the whole struct is copied out.
VLWritePacket_Struct(packet) == packet

\* The bytes of a packet on the wire.
VLWritePacket(packet) == SubSeq(packet, 1, VLPacketLength(packet))

\* Mutant: the CRC bits are not compared.
VLReadPacket_NoCrc(src, uninit) ==
  IF Len(src) > kPacketMaxLength \/ Len(src) < kPacketMinLength
     \/ Len(src) # kPacketOffsetPayload + src[kPacketOffsetLength + 1]
  THEN [packet |-> Fill(20, uninit), err |-> -1]
  ELSE [packet |-> src \o Fill(20 - Len(src), uninit), err |-> 0]

\* Mutant: all eight bits of the first byte are compared with the CRC.
VLReadPacket_Crc8(src, uninit) ==
  IF Len(src) > kPacketMaxLength \/ Len(src) < kPacketMinLength
     \/ Len(src) # kPacketOffsetPayload + src[kPacketOffsetLength + 1]
  THEN [packet |-> Fill(20, uninit), err |-> -1]
  ELSE LET packet == src \o Fill(20 - Len(src), uninit)
       IN  IF PktCrc(packet) # crc(SubSeq(src, 2, Len(src)))
           THEN [packet |-> packet, err |-> -2]
           ELSE [packet |-> packet, err |-> 0]

\* uninit: the value of the bytes of the caller's uninitialised VLPacket that
\* memcpy does not overwrite.
VLReadPacket(src, uninit) ==
  IF Len(src) > kPacketMaxLength \/ Len(src) < kPacketMinLength
     \/ Len(src) # kPacketOffsetPayload + src[kPacketOffsetLength + 1]
  THEN [packet |-> Fill(20, uninit), err |-> -1]
  ELSE LET packet == src \o Fill(20 - Len(src), uninit)
       IN  IF And1f(PktCrc(packet)) # And1f(crc(SubSeq(src, 2, Len(src))))
           THEN [packet |-> packet, err |-> -2]
           ELSE [packet |-> packet, err |-> 0]

VLValidatePacketFromViva(packet) ==
  IF PktSender(packet) # kPeerViiiiva \/ PktReceiver(packet) # kPeerHost
  THEN 1 ELSE 0

(* -------------------------------- time --------------------------------- *)

kAntEpoch == 631065600

\* static_cast<uint32_t>(posix_time - kAntEpoch), for |posix_time| < 2^31.
VLGetVivaTimeFromPosix(posix_time) ==
  LET d == posix_time - kAntEpoch
      e == d + 2147483647 + 1
  IN  IF d >= 0 THEN U32(d \div 65536, d % 65536)
      ELSE U32(32768 + (e \div 65536), e % 65536)

\* The same for a 64-bit time_t kept as << high part, low 16 bits >>.
VLGetVivaTimeFromPosixWide(posix_time) ==
  LET lo == posix_time[2] - (kAntEpoch % 65536)
      hi == posix_time[1] - (kAntEpoch \div 65536) - (IF lo < 0 THEN 1 ELSE 0)
  IN  U32(hi % 65536, (lo + 65536) % 65536)

\* Mutant: the sum is not widened beyond 32 bits.
VLGetPosixTimeFromViva_Narrow(viva_time) ==
  LET lo == viva_time[2] + (kAntEpoch % 65536)
  IN  << (viva_time[1] + (kAntEpoch \div 65536) + (lo \div 65536)) % 65536,
         lo % 65536 >>

\* static_cast<uint64_t>(viva_time) + kAntEpoch, as << high part, low 16 bits >>.
VLGetPosixTimeFromViva(viva_time) ==
  LET lo == viva_time[2] + (kAntEpoch % 65536)
  IN  << viva_time[1] + (kAntEpoch \div 65536) + (lo \div 65536), lo % 65536 >>

(* -------------------------------- burst -------------------------------- *)

kSeqnoUninitialized == 0
kSeqnoInvalid == 8

\* Mutant: any sequence number continues the burst.
BurstReadPacket_AnySeqno(burst_state, packet) ==
  LET seqno == VLPacketSeqno(packet)
  IN  IF seqno = kVLSeqnoEnd THEN seqno ELSE VLGetNextSeqno(seqno)

\* Mutant: a burst with no packets read expects sequence number 1.
BurstReadPacket_FromOne(burst_state, packet) ==
  LET seqno == VLPacketSeqno(packet)
      expected == IF burst_state = kSeqnoUninitialized THEN 1 ELSE burst_state
  IN  IF ~VLDoesSeqnoMatch(seqno, expected) \/ burst_state = kVLSeqnoEnd
      THEN kSeqnoInvalid
      ELSE IF seqno = kVLSeqnoEnd THEN seqno
      ELSE VLGetNextSeqno(seqno)

\* Mutant: a burst that has ended goes on reading.
BurstReadPacket_PastEnd(burst_state, packet) ==
  LET seqno == VLPacketSeqno(packet)
  IN  IF ~VLDoesSeqnoMatch(seqno, burst_state)
      THEN kSeqnoInvalid
      ELSE IF seqno = kVLSeqnoEnd THEN seqno
      ELSE VLGetNextSeqno(seqno)

BurstReadPacket(burst_state, packet) ==
  LET seqno == VLPacketSeqno(packet)
  IN  IF ~VLDoesSeqnoMatch(seqno, burst_state) \/ burst_state = kVLSeqnoEnd
      THEN kSeqnoInvalid
      ELSE IF seqno = kVLSeqnoEnd THEN seqno
      ELSE VLGetNextSeqno(seqno)

IsEmpty(burst_state) == burst_state = kSeqnoUninitialized
HasEnded(burst_state) == burst_state = kVLSeqnoEnd
IsValid(burst_state) == burst_state # kSeqnoInvalid

(* --------------------------- delegate events --------------------------- *)

kVLManagerErrorBadHeader == 1
kVLManagerErrorBadPayload == 2
kVLManagerErrorUnexpected == 3

WriteValue(value) == [value |-> value, ev |-> "write_value"]
DidStartWaiting == [ev |-> "did_start_waiting"]
DidFinishWaiting == [ev |-> "did_finish_waiting"]
DidError(code, msg) == [ev |-> "did_error", code |-> code, msg |-> msg]
DidParseDirectoryEntry(entry) ==
  [ev |-> "did_parse_directory_entry", entry |-> entry]
DidFinishParsingDirectory == [ev |-> "did_finish_parsing_directory"]
DidDownloadFile(index, data) ==
  [data |-> data, ev |-> "did_download_file", index |-> index]
DidEraseFile(index, ok) == [ev |-> "did_erase_file", index |-> index, ok |-> ok]
DidSetTime(ok) == [ev |-> "did_set_time", ok |-> ok]

(* ------------------------------ directory ------------------------------ *)

kExpectedDirectoryVersion == 1
kExpectedTimeFormat == 0
kExpectedRecordLength == 16
kDirectoryRecordLength == 16

\* src holds at least 16 bytes (the caller pads an over-read).
VLReadDirectoryHeader(src) ==
  IF src[1] # kExpectedDirectoryVersion THEN -1
  ELSE IF src[2] # kExpectedRecordLength THEN -2
  ELSE IF src[3] # kExpectedTimeFormat THEN -3
  ELSE 16

VLReadNextDirectoryEntry(src, length) == IF length < 16 THEN -1 ELSE 16

\* DirectoryEntry::entry() of the 16 raw bytes of an entry.
DirectoryEntryOf(raw) ==
  [posix_time |-> VLGetPosixTimeFromViva(OSReadLittleInt32(raw, 12)),
   index |-> OSReadLittleInt16(raw, 0),
   length |-> OSReadLittleInt32(raw, 8),
   file_type |-> raw[3] + (256 * raw[4])]

\* Mutant: an existing key takes the new value.
Emplace_Overwrite(m, k, v) ==
  [x \in DOMAIN m \cup {k} |-> IF x = k THEN v ELSE m[x]]

\* std::map::emplace: an existing key keeps its value.
Emplace(m, k, v) ==
  IF k \in DOMAIN m THEN m ELSE [x \in DOMAIN m \cup {k} |-> IF x = k THEN v ELSE m[x]]

EmptyMap == [x \in {} |-> 0]

\* Mutant: a tail shorter than an entry ends the loop successfully.
RECURSIVE ReadEntries_DropTail(_, _, _)
ReadEntries_DropTail(data, p, entries) ==
  IF p + 16 > Len(data) THEN [ok |-> TRUE, entries |-> entries]
  ELSE LET entry == DirectoryEntryOf(SubSeq(data, p + 1, p + 16))
       IN  ReadEntries_DropTail(data, p + 16,
                                Emplace(entries, entry.index, entry))

\* The loop of Directory::Reader::Read; p is the 0-based offset into data.
RECURSIVE ReadEntries(_, _, _)
ReadEntries(data, p, entries) ==
  IF p >= Len(data) THEN [ok |-> TRUE, entries |-> entries]
  ELSE IF VLReadNextDirectoryEntry(data, Len(data) - p) < 0
       THEN [ok |-> FALSE, entries |-> entries]
       ELSE LET entry == DirectoryEntryOf(SubSeq(data, p + 1, p + 16))
            IN  ReadEntries(data, p + 16, Emplace(entries, entry.index, entry))

\* Directory::Reader::Read.  The header reader copies 16 bytes whatever the
\* length; overread is what lies behind a shorter buffer.
DirectoryRead(data, overread) ==
  LET src == IF Len(data) < 16 THEN data \o Fill(16 - Len(data), overread)
             ELSE data
  IN  IF VLReadDirectoryHeader(src) < 0
      THEN [ok |-> FALSE, entries |-> EmptyMap]
      ELSE ReadEntries(data, 16, EmptyMap)

\* Mutant: the map is iterated in descending key order.
RECURSIVE EntryEvents_Descending(_, _)
EntryEvents_Descending(m, keys) ==
  IF keys = {} THEN << >>
  ELSE LET k == CHOOSE x \in keys : \A y \in keys : x >= y
       IN  << DidParseDirectoryEntry(m[k]) >>
             \o EntryEvents_Descending(m, keys \ {k})

\* Iteration of the std::map in ascending key order.
RECURSIVE EntryEvents(_, _)
EntryEvents(m, keys) ==
  IF keys = {} THEN << >>
  ELSE LET k == CHOOSE x \in keys : \A y \in keys : x <= y
       IN  << DidParseDirectoryEntry(m[k]) >> \o EntryEvents(m, keys \ {k})

(* ------------------------------ commands ------------------------------- *)

kCommandDownload == 267
kCommandDownloadReply == 779
kCommandErase == 1035
kCommandEraseReply == 1291
kCommandSetTime == 264
kDirectoryIndex == 0

NoCommand == [kind |-> "none"]

AcknowledgementForCommand(cmd) == IF cmd >= 32768 THEN cmd ELSE cmd + 32768

\* viv::ReadAck
ReadAck(packet, cmd) ==
  LET err == VLValidatePacketFromViva(packet)
  IN  IF err # 0 THEN err
      ELSE IF OSReadLittleInt16(PktCmd(packet), 0) # AcknowledgementForCommand(cmd)
           THEN -2
           ELSE 0

DownloadCommand(index, on_finish) ==
  [offset |-> U32(0, 0), index |-> index, length |-> U32(65535, 65535),
   kind |-> "download", on_finish |-> on_finish,
   has_ack |-> FALSE, burst_ |-> kSeqnoUninitialized, buf_ |-> << >>]

EraseCommand(index) ==
  [index |-> index, kind |-> "erase", has_ack |-> FALSE,
   is_ok |-> FALSE, is_finished |-> FALSE]

SetTimeCommand(ant_time) ==
  [kind |-> "set_time", has_ack |-> FALSE, time |-> ant_time]

CommandName(c) ==
  IF c.kind = "download" THEN "download command"
  ELSE IF c.kind = "erase" THEN "erase command"
  ELSE "set time command"

MakeCommandPacket(c) ==
  IF c.kind = "download"
  THEN VLMakePacket(kVLSeqnoEnd, kCommandDownload,
         VLWriteLittleInt16(c.index) \o VLWriteLittleInt32(c.offset)
           \o VLWriteLittleInt32(c.length))
  ELSE IF c.kind = "erase"
  THEN VLMakePacket(kVLSeqnoEnd, kCommandErase, VLWriteLittleInt16(c.index))
  ELSE VLMakePacket(kVLSeqnoEnd, kCommandSetTime, VLWriteLittleInt32(c.time))

CommandWithReplyReadAck(c, packet, cmd) ==
  LET err == ReadAck(packet, cmd)
  IN  [c |-> IF err = 0 THEN [c EXCEPT !.has_ack = TRUE] ELSE c, ret |-> err]

DownloadReadAck(c, packet) ==
  LET err == ReadAck(packet, kCommandDownload)
      length == OSReadLittleInt32(PktPayload(packet), 6)
  IN  IF err # 0 THEN [c |-> c, ret |-> err]
      ELSE IF c.index # OSReadLittleInt16(PktPayload(packet), 0)
              \/ c.offset # OSReadLittleInt32(PktPayload(packet), 2)
              \/ U32Gt(length, c.length)
           THEN [c |-> c, ret |-> -3]
           ELSE [c |-> [c EXCEPT !.has_ack = TRUE], ret |-> 0]

\* Mutant: the payload is put in front of the buffer.
DownloadReadReply_Prepend(c, packet) ==
  IF OSReadLittleInt16(PktCmd(packet), 0) # kCommandDownloadReply
     \/ PktPayloadLength(packet) = 0
     \/ VLValidatePacketFromViva(packet) # 0
  THEN [c |-> c, ret |-> -1]
  ELSE LET burst == BurstReadPacket(c.burst_, packet)
       IN  IF ~IsValid(burst) THEN [c |-> c, ret |-> -2]
           ELSE [c |-> [c EXCEPT !.burst_ = burst,
                          !.buf_ = SubSeq(PktPayload(packet), 1,
                                          PktPayloadLength(packet)) \o @],
                 ret |-> PktPayloadLength(packet)]

DownloadReadReply(c, packet) ==
  IF OSReadLittleInt16(PktCmd(packet), 0) # kCommandDownloadReply
     \/ PktPayloadLength(packet) = 0
     \/ VLValidatePacketFromViva(packet) # 0
  THEN [c |-> c, ret |-> -1]
  ELSE LET burst == BurstReadPacket(c.burst_, packet)
       IN  IF ~IsValid(burst) THEN [c |-> c, ret |-> -2]
           ELSE [c |-> [c EXCEPT !.burst_ = burst,
                          !.buf_ = @ \o SubSeq(PktPayload(packet), 1,
                                               PktPayloadLength(packet))],
                 ret |-> PktPayloadLength(packet)]

EraseReadReply(c, packet) ==
  IF ~c.has_ack \/ c.is_finished THEN [c |-> c, ret |-> -1]
  ELSE IF OSReadLittleInt16(PktCmd(packet), 0) # kCommandEraseReply
          \/ PktPayloadLength(packet) # 1
          \/ PktPayload(packet)[1] # 0
          \/ VLValidatePacketFromViva(packet) # 0
       THEN [c |-> c, ret |-> -2]
       ELSE [c |-> [c EXCEPT !.is_finished = TRUE], ret |-> 0]

SetTimeReadPacket(c, packet) ==
  LET err == ReadAck(packet, kCommandSetTime)
  IN  [c |-> IF err = 0 THEN [c EXCEPT !.has_ack = TRUE] ELSE c, ret |-> err]

\* Mutant: a reply command parses every packet as an ack.
ReadPacket_AckOnly(c, packet) ==
  IF c.kind = "download" THEN DownloadReadAck(c, packet)
  ELSE IF c.kind = "erase"
  THEN CommandWithReplyReadAck(c, packet, kCommandErase)
  ELSE SetTimeReadPacket(c, packet)

\* Command::ReadPacket, by dynamic type.
ReadPacket(c, packet) ==
  IF c.kind = "download"
  THEN IF c.has_ack THEN DownloadReadReply(c, packet)
       ELSE DownloadReadAck(c, packet)
  ELSE IF c.kind = "erase"
  THEN IF c.has_ack THEN EraseReadReply(c, packet)
       ELSE CommandWithReplyReadAck(c, packet, kCommandErase)
  ELSE SetTimeReadPacket(c, packet)

ShouldAckReply(c) == c.kind = "erase"

\* Mutant: the command id is acknowledged instead of the reply id.
MakeResponseAckPacket_OfCommand(c) ==
  VLMakeAckPacket(IF c.kind = "erase" THEN kCommandErase ELSE kCommandDownload)

MakeResponseAckPacket(c) ==
  VLMakeAckPacket(IF c.kind = "erase" THEN kCommandEraseReply
                  ELSE kCommandDownloadReply)

(* --------------------- completion callbacks (manager) ------------------ *)

\* The on_finish lambda of Manager::DownloadDirectory.  In a build with
\* assertions the header reader aborts on fewer than 16 bytes; without them it
\* reads past the end of the buffer.
DownloadDirectoryOnFinish(index, data, debug, overread) ==
  IF Len(data) < 16 /\ debug THEN [abort |-> TRUE, evs |-> << >>]
  ELSE LET r == DirectoryRead(data, overread)
       IN  IF ~r.ok
           THEN [abort |-> FALSE,
                 evs |-> << DidError(kVLManagerErrorBadHeader,
                                     "Error parsing directory") >>]
           ELSE [abort |-> FALSE,
                 evs |-> EntryEvents(r.entries, DOMAIN r.entries)
                           \o << DidFinishParsingDirectory >>]

\* The on_finish lambda of Manager::DownloadFile.
DownloadFileOnFinish(index, data) ==
  [abort |-> FALSE, evs |-> << DidDownloadFile(index, data) >>]

\* The on_finish callback handed to SetTimeCommand.
SetTimeOnFinish(ok) == << DidSetTime(ok) >>

\* Mutant: completion is reported without running on_finish_.
DownloadMaybeFinish_NoCallback(c, debug, overread) ==
  [abort |-> FALSE, evs |-> << >>, fin |-> c.has_ack /\ HasEnded(c.burst_)]

\* Mutant: the download finishes on its ack, whether the burst has ended or
\* not.
DownloadMaybeFinish_OnAck(c, debug, overread) ==
  IF c.has_ack
  THEN LET f == IF c.on_finish = "directory"
                THEN DownloadDirectoryOnFinish(c.index, c.buf_, debug, overread)
                ELSE DownloadFileOnFinish(c.index, c.buf_)
       IN  [abort |-> f.abort, evs |-> f.evs, fin |-> TRUE]
  ELSE [abort |-> FALSE, evs |-> << >>, fin |-> FALSE]

DownloadMaybeFinish(c, debug, overread) ==
  IF c.has_ack /\ HasEnded(c.burst_)
  THEN LET f == IF c.on_finish = "directory"
                THEN DownloadDirectoryOnFinish(c.index, c.buf_, debug, overread)
                ELSE DownloadFileOnFinish(c.index, c.buf_)
       IN  [abort |-> f.abort, evs |-> f.evs, fin |-> TRUE]
  ELSE [abort |-> FALSE, evs |-> << >>, fin |-> FALSE]

EraseMaybeFinish(c) ==
  [abort |-> FALSE, evs |-> << >>, fin |-> c.has_ack /\ c.is_finished]

\* Mutant: on_finish_ is not called.
SetTimeMaybeFinish_NoCallback(c) ==
  [abort |-> FALSE, evs |-> << >>, fin |-> c.has_ack]

SetTimeMaybeFinish(c) ==
  [abort |-> FALSE, evs |-> SetTimeOnFinish(c.has_ack), fin |-> c.has_ack]

\* Command::MaybeFinish, by dynamic type.
MaybeFinish(c, debug, overread) ==
  IF c.kind = "download" THEN DownloadMaybeFinish(c, debug, overread)
  ELSE IF c.kind = "erase" THEN EraseMaybeFinish(c)
  ELSE SetTimeMaybeFinish(c)

(* ------------------------------ environment ---------------------------- *)

\* File indices and clock values the caller uses.
FileIndices == {1, 2}
PosixTimes == {1600000000, 631065599}

\* Values write_value returns: success and failure.
WriteResults == {0, -1}

\* Contents of memory the program reads without having written it.
UninitBytes == {0, 255}

\* Payloads of download replies: the first half of a directory header, eight
\* zero bytes (second half of a header or of an entry, or the first half of an
\* entry with index 0), and the first half of the entry of file 1.
ChunkHeader == << 1, 16, 0, 0, 0, 0, 0, 0 >>
ChunkZero == << 0, 0, 0, 0, 0, 0, 0, 0 >>
ChunkEntry1 == << 1, 0, 128, 4, 1, 0, 0, 96 >>
Chunks == {ChunkHeader, ChunkZero, ChunkEntry1}

\* Sequence numbers on download replies, and the payloads sent with each:
\* enough for a directory of a header and one entry, sent in four packets.
ReplySeqnos == {0, 1, 2, 3, 7}
ChunksAt(seqno) ==
  CASE seqno = 0 -> {ChunkHeader, ChunkZero}
    [] seqno = 2 -> {ChunkEntry1, ChunkZero}
    [] seqno = kVLSeqnoEnd -> Chunks
    [] OTHER -> {ChunkZero}

\* The bytes of a packet as the device serialises it.
FromDevice(seqno, cmd, payload) ==
  VLWritePacket(MakeStruct(seqno, kPeerViiiiva, kPeerHost, cmd, payload))

DownloadAckPayload(index, offset, length) ==
  VLWriteLittleInt16(index) \o VLWriteLittleInt32(U32(0, offset))
    \o VLWriteLittleInt32(U32(0, length))

AckSetTime == FromDevice(kVLSeqnoEnd, AcknowledgementForCommand(kCommandSetTime), << >>)
AckErase == FromDevice(kVLSeqnoEnd, AcknowledgementForCommand(kCommandErase), << >>)
AckDownload(index) ==
  FromDevice(kVLSeqnoEnd, AcknowledgementForCommand(kCommandDownload),
             DownloadAckPayload(index, 0, 2))
ReplyErase(status) == FromDevice(kVLSeqnoEnd, kCommandEraseReply, << status >>)
ReplyDownload(seqno, payload) == FromDevice(seqno, kCommandDownloadReply, payload)

\* The download replies the device can send.
DownloadReplies ==
  UNION {{ReplyDownload(seqno, c) : c \in ChunksAt(seqno)} : seqno \in ReplySeqnos}

\* A packet framed by the host side (wrong direction when received).
FromHost(cmd, payload) == VLWritePacket(VLMakePacket(kVLSeqnoEnd, cmd, payload))

\* One bit of the CRC flipped.
CorruptCrc(bytes) ==
  [i \in 1..Len(bytes) |-> IF i = 1 THEN Xor8(bytes[1], 1) ELSE bytes[i]]

WellFramed ==
  {AckSetTime, AckErase}
    \cup {AckDownload(i) : i \in {0} \cup FileIndices}
    \cup {FromDevice(kVLSeqnoEnd, AcknowledgementForCommand(kCommandDownload),
                     DownloadAckPayload(1, 1, 2)),
          FromDevice(kVLSeqnoEnd, AcknowledgementForCommand(kCommandDownload), << >>)}
    \cup {ReplyErase(0), ReplyErase(1),
          FromDevice(kVLSeqnoEnd, kCommandEraseReply, << >>)}
    \cup DownloadReplies
    \cup {ReplyDownload(kVLSeqnoEnd, << >>)}
    \cup {FromHost(AcknowledgementForCommand(kCommandSetTime), << >>),
          FromHost(AcknowledgementForCommand(kCommandErase), << >>),
          FromHost(AcknowledgementForCommand(kCommandDownload),
                   DownloadAckPayload(0, 0, 2)),
          FromHost(kCommandEraseReply, << 0 >>),
          FromHost(kCommandDownloadReply, ChunkZero)}

BadFramed ==
  {CorruptCrc(AckSetTime), CorruptCrc(ReplyDownload(kVLSeqnoEnd, ChunkZero)),
   CorruptCrc(ReplyDownload(kVLSeqnoEnd, Fill(14, 0))),
   SubSeq(AckSetTime, 1, 5), AckErase \o << 0 >>,
   ReplyDownload(kVLSeqnoEnd, ChunkZero) \o Fill(7, 0)}

\* The values the transport hands to notify_value.
Values == WellFramed \cup BadFramed

\* VLReadPacket of every value the transport can deliver, for every content
\* of the uninitialised part of the packet struct.
Parsed ==
  [value \in Values |->
     [uninit \in UninitBytes |-> VLReadPacket(value, uninit)]]

(* ------------------------------- manager ------------------------------- *)

\* Mutant: the wait is entered whatever write_value returns.
WritePacket_AlwaysWait(packet, wait_for_ack, wr) ==
  << WriteValue(VLWritePacket(packet)) >>
    \o (IF wr < 0
        THEN << DidError(kVLManagerErrorUnexpected, "WriteValue") >>
        ELSE << >>)
    \o (IF wait_for_ack THEN << DidStartWaiting >> ELSE << >>)

\* Manager::WritePacket: the events it emits when write_value returns wr.
WritePacket(packet, wait_for_ack, wr) ==
  << WriteValue(VLWritePacket(packet)) >>
    \o (IF wr < 0
        THEN << DidError(kVLManagerErrorUnexpected, "WriteValue") >>
        ELSE IF wait_for_ack THEN << DidStartWaiting >> ELSE << >>)

Snapshot == [command_ |-> command_, response_ |-> response_,
             started |-> started]

\* Mutant: the wrong error code is reported.
UnexpectedValue_BadHeader ==
  << DidError(kVLManagerErrorBadHeader, "Unexpected value notification") >>

\* Manager::NotifyValue with no command in either slot.
UnexpectedValue ==
  << DidError(kVLManagerErrorUnexpected, "Unexpected value notification") >>

\* Mutant: the wait is ended before the callbacks of MaybeFinish are seen,
\* as if MaybeFinish ran after DidFinishWaiting.
FinishEvents_FinishFirst(callbackEvents, response, wr) ==
  << DidFinishWaiting >>
    \o (IF response # NoCommand /\ ShouldAckReply(response)
        THEN WritePacket(MakeResponseAckPacket(response), FALSE, wr)
        ELSE << >>)
    \o callbackEvents

\* Mutant: the wait is not ended when the callback reported an error.
FinishEvents_StopOnError(callbackEvents, response, wr) ==
  IF \E i \in 1..Len(callbackEvents) : callbackEvents[i].ev = "did_error"
  THEN callbackEvents
  ELSE callbackEvents \o << DidFinishWaiting >>

\* Manager::NotifyValue once MaybeFinish has returned true: callbackEvents are
\* the events MaybeFinish emitted, response the reply slot.
FinishEvents(callbackEvents, response, wr) ==
  callbackEvents \o << DidFinishWaiting >>
    \o (IF response # NoCommand /\ ShouldAckReply(response)
        THEN WritePacket(MakeResponseAckPacket(response), FALSE, wr)
        ELSE << >>)

\* What Manager::NotifyValue does with value: the events, the new slots and
\* the command that reported completion, if any.
NotifyValueResult(value, uninit, debug, wr) ==
  LET same == [command_ |-> command_, response_ |-> response_,
               events |-> << >>, finished |-> NoCommand,
               abort |-> FALSE]
  IN
  IF command_ = NoCommand /\ response_ = NoCommand
  THEN [same EXCEPT !.events = UnexpectedValue]
  ELSE
    LET useResponse == response_ # NoCommand
        command == IF useResponse THEN response_ ELSE command_
        rd == Parsed[value][uninit]
    IN
    IF rd.err # 0
    THEN [same EXCEPT !.events =
            << DidError(kVLManagerErrorBadHeader,
                        CommandName(command) \o ": invalid value notification") >>]
    ELSE
      LET rp == ReadPacket(command, rd.packet)
          cmdAfter == IF useResponse THEN command_ ELSE rp.c
          rspAfter == IF useResponse THEN rp.c ELSE response_
      IN
      IF rp.ret < 0
      THEN [command_ |-> cmdAfter, response_ |-> rspAfter,
            events |->
              << DidError(kVLManagerErrorBadPayload,
                          CommandName(command) \o ": invalid value notification") >>,
            finished |-> NoCommand, abort |-> FALSE]
      ELSE
        LET mf == MaybeFinish(rp.c, debug, uninit)
        IN
        IF mf.abort
        THEN [command_ |-> cmdAfter, response_ |-> rspAfter,
              events |-> mf.evs, finished |-> NoCommand, abort |-> TRUE]
        ELSE IF mf.fin
        THEN [command_ |-> cmdAfter, response_ |-> NoCommand,
              events |-> FinishEvents(mf.evs, rspAfter, wr),
              finished |-> rp.c, abort |-> FALSE]
        ELSE [command_ |-> cmdAfter, response_ |-> rspAfter,
              events |-> mf.evs, finished |-> NoCommand, abort |-> FALSE]

BufLen(c) == IF c.kind = "download" THEN Len(c.buf_) ELSE 0

NotifyValue(value, uninit, debug, wr) ==
  LET r == NotifyValueResult(value, uninit, debug, wr)
  IN  /\ ~aborted
      /\ BufLen(r.response_) <= MaxBuf
      /\ command_' = r.command_
      /\ response_' = r.response_
      /\ events' = r.events
      /\ aborted' = r.abort
      /\ finished' = r.finished
      /\ op' = "notify_value"
      /\ arg' = value
      /\ prev' = Snapshot
      /\ UNCHANGED started

\* Mutant: the timed-out command is reported but stays installed.
NotifyTimeout_KeepCommand ==
  /\ ~aborted
  /\ events' =
       (IF command_ # NoCommand
        THEN << DidError(kVLManagerErrorUnexpected,
                         CommandName(command_) \o ": timeout waiting for command"),
                DidFinishWaiting >>
        ELSE << >>)
  /\ op' = "notify_timeout"
  /\ arg' = << >>
  /\ finished' = NoCommand
  /\ prev' = Snapshot
  /\ UNCHANGED <<command_, response_, started, aborted>>

\* Mutant: a pending reply command times out like a simple one.
NotifyTimeout_AnySlot ==
  /\ ~aborted
  /\ events' =
       (IF command_ # NoCommand \/ response_ # NoCommand
        THEN << DidError(kVLManagerErrorUnexpected, "timeout waiting for command"),
                DidFinishWaiting >>
        ELSE << >>)
  /\ command_' = NoCommand
  /\ response_' = NoCommand
  /\ op' = "notify_timeout"
  /\ arg' = << >>
  /\ finished' = NoCommand
  /\ prev' = Snapshot
  /\ UNCHANGED <<started, aborted>>

NotifyTimeout ==
  /\ ~aborted
  /\ IF command_ # NoCommand
     THEN /\ events' =
               << DidError(kVLManagerErrorUnexpected,
                           CommandName(command_) \o ": timeout waiting for command"),
                  DidFinishWaiting >>
          /\ command_' = NoCommand
     ELSE /\ events' = << >>
          /\ UNCHANGED command_
  /\ op' = "notify_timeout"
  /\ arg' = << >>
  /\ finished' = NoCommand
  /\ prev' = Snapshot
  /\ UNCHANGED <<response_, started, aborted>>

\* The part the four command entry points share: the new slots are already
\* chosen, the command packet is written and the wait entered.
Issue(name, newCommand, newResponse, packet, wr) ==
  /\ ~aborted
  /\ command_' = newCommand
  /\ response_' = newResponse
  /\ events' = WritePacket(packet, TRUE, wr)
  /\ started' = (wr >= 0)
  /\ op' = name
  /\ arg' = << >>
  /\ finished' = NoCommand
  /\ prev' = Snapshot
  /\ UNCHANGED aborted

DownloadDirectory(wr) ==
  LET new == DownloadCommand(kDirectoryIndex, "directory")
  IN  Issue("download_directory", NoCommand, new,
            MakeCommandPacket(new), wr)

\* Mutant: the simple command slot is not reset.
DownloadFile_KeepCommand(index, wr) ==
  LET new == DownloadCommand(index, "file")
  IN  Issue("download_file", command_, new, MakeCommandPacket(new), wr)

DownloadFile(index, wr) ==
  LET new == DownloadCommand(index, "file")
  IN  Issue("download_file", NoCommand, new,
            MakeCommandPacket(new), wr)

\* Mutant: the simple command slot is not released.
EraseFile_KeepCommand(index, wr) ==
  LET new == EraseCommand(index)
  IN  Issue("erase_file", command_, new, MakeCommandPacket(new), wr)

EraseFile(index, wr) ==
  LET new == EraseCommand(index)
  IN  Issue("erase_file", NoCommand, new,
            MakeCommandPacket(new), wr)

\* Mutant: the reply slot is not released.
SetTime_KeepResponse(posix_time, wr) ==
  LET new == SetTimeCommand(VLGetVivaTimeFromPosix(posix_time))
  IN  Issue("set_time", new, response_, MakeCommandPacket(new), wr)

SetTime(posix_time, wr) ==
  LET new == SetTimeCommand(VLGetVivaTimeFromPosix(posix_time))
  IN  Issue("set_time", new, NoCommand,
            MakeCommandPacket(new), wr)

busyVars == <<busy_, call, at, nested>>

\* The function a specification of one function applies, what it is given
\* and what it returns; unused by the specifications of the manager.
fnVars == <<fn, input, output>>

(* ---------------------------- specification ---------------------------- *)

Init ==
  /\ command_ = NoCommand
  /\ response_ = NoCommand
  /\ events = << >>
  /\ op = "new"
  /\ arg = << >>
  /\ prev = [command_ |-> NoCommand, response_ |-> NoCommand, started |-> FALSE]
  /\ finished = NoCommand
  /\ started = FALSE
  /\ aborted = FALSE
  /\ waits = 0
  /\ busy_ = FALSE
  /\ call = "idle"
  /\ at = 0
  /\ nested = << >>
  /\ fn = "none"
  /\ input = << >>
  /\ output = << >>

\* In Spec a step is one whole entry-point call, from the construction of its
\* AssertNoRecursion to the destruction: it starts and ends outside any call.
Whole == call = "idle" /\ UNCHANGED <<busyVars, fnVars, waits>>

Next ==
  \/ \E value \in Values, uninit \in UninitBytes, debug \in BOOLEAN,
        wr \in WriteResults : Whole /\ NotifyValue(value, uninit, debug, wr)
  \/ Whole /\ NotifyTimeout
  \/ \E wr \in WriteResults : Whole /\ DownloadDirectory(wr)
  \/ \E index \in FileIndices, wr \in WriteResults :
        Whole /\ DownloadFile(index, wr)
  \/ \E index \in FileIndices, wr \in WriteResults :
        Whole /\ EraseFile(index, wr)
  \/ \E posix_time \in PosixTimes, wr \in WriteResults :
        Whole /\ SetTime(posix_time, wr)

Spec == Init /\ [][Next]_vars

\* The number of events of one kind in a list of events.
Count(evs, name) == Cardinality({i \in 1..Len(evs) : evs[i].ev = name})

\* SpecWait is Spec with a tally kept of the waits the delegate was told of:
\* waits is the number of did_start_waiting calls made so far less the
\* number of did_finish_waiting calls. Nothing in the program bounds either
\* number; the tally is kept within MaxWaits of zero.
Tally ==
  /\ waits' = (waits + Count(events', "did_start_waiting"))
                 - Count(events', "did_finish_waiting")
  /\ waits' \in (0 - MaxWaits)..MaxWaits

NextWait ==
  \/ \E value \in Values, uninit \in UninitBytes, debug \in BOOLEAN,
        wr \in WriteResults :
        /\ call = "idle" /\ UNCHANGED <<busyVars, fnVars>>
        /\ NotifyValue(value, uninit, debug, wr)
        /\ Tally
  \/ /\ call = "idle" /\ UNCHANGED <<busyVars, fnVars>>
     /\ NotifyTimeout
     /\ Tally
  \/ \E wr \in WriteResults :
        /\ call = "idle" /\ UNCHANGED <<busyVars, fnVars>>
        /\ DownloadDirectory(wr)
        /\ Tally
  \/ \E index \in FileIndices, wr \in WriteResults :
        /\ call = "idle" /\ UNCHANGED <<busyVars, fnVars>>
        /\ DownloadFile(index, wr)
        /\ Tally
  \/ \E index \in FileIndices, wr \in WriteResults :
        /\ call = "idle" /\ UNCHANGED <<busyVars, fnVars>>
        /\ EraseFile(index, wr)
        /\ Tally
  \/ \E posix_time \in PosixTimes, wr \in WriteResults :
        /\ call = "idle" /\ UNCHANGED <<busyVars, fnVars>>
        /\ SetTime(posix_time, wr)
        /\ Tally

SpecWait == Init /\ [][NextWait]_vars

(* ------------------------------ re-entrancy ---------------------------- *)

\* SpecBusy is the debug build (DEBUG is 1 unless NDEBUG is defined) seen at
\* a finer grain: a call is entered, makes its delegate callbacks one by one
\* and returns, and a delegate callback may call back into the manager.
\* The slots and the list of callbacks of a call are those of the whole
\* call; a nested entry stops at its assertion before it reads either.
DEBUG == TRUE

EntryPoints ==
  {"notify_value", "notify_timeout", "download_directory", "download_file",
   "erase_file", "set_time"}

\* Mutant: the constructor does not set the flag.
AssertNoRecursion_NoSet(busy) == busy

\* The constructor, assert(!busy); busy = true: whether the assertion fails,
\* and the flag it leaves.
AssertFails(busy) == DEBUG /\ busy

AssertNoRecursion(busy) == IF DEBUG THEN TRUE ELSE busy

\* Mutant: the destructor leaves the flag set.
AssertNoRecursionDestroy_Keep(busy) == busy

\* The destructor: busy_ = false.
AssertNoRecursionDestroy(busy) == IF DEBUG THEN FALSE ELSE busy

\* The first statement of every entry point, for a call from outside.
Enter ==
  /\ call = "idle"
  /\ nested = << >>
  /\ ~AssertFails(busy_)
  /\ busy_' = AssertNoRecursion(busy_)
  /\ call' = "running"
  /\ at' = 0
  /\ UNCHANGED <<nested, fnVars, waits>>

\* The delegate callback in progress returns without calling the manager.
CallbackReturns ==
  /\ call = "running"
  /\ nested = << >>
  /\ ~aborted
  /\ at < Len(events)
  /\ at' = at + 1
  /\ UNCHANGED <<vars, busy_, call, nested, fnVars>>

\* The delegate callback in progress calls an entry point: its
\* AssertNoRecursion is constructed on the flag the outer call holds.
Reenter(entry) ==
  /\ call = "running"
  /\ nested = << >>
  /\ ~aborted
  /\ at < Len(events)
  /\ nested' = << entry, IF AssertFails(busy_) THEN "asserted" ELSE "entered" >>
  /\ aborted' = AssertFails(busy_)
  /\ busy_' = IF AssertFails(busy_) THEN busy_ ELSE AssertNoRecursion(busy_)
  /\ UNCHANGED <<command_, response_, events, op, arg, prev, finished,
                 started, call, at, fnVars, waits>>

\* Every return path of an entry point: the early returns and the end of the
\* body alike destroy the AssertNoRecursion.
Return ==
  /\ call = "running"
  /\ nested = << >>
  /\ ~aborted
  /\ at = Len(events)
  /\ busy_' = AssertNoRecursionDestroy(busy_)
  /\ call' = "idle"
  /\ UNCHANGED <<vars, at, nested, fnVars>>

NextBusy ==
  \/ \E value \in Values, uninit \in UninitBytes, wr \in WriteResults :
        Enter /\ NotifyValue(value, uninit, DEBUG, wr)
  \/ Enter /\ NotifyTimeout
  \/ \E wr \in WriteResults : Enter /\ DownloadDirectory(wr)
  \/ \E index \in FileIndices, wr \in WriteResults :
        Enter /\ DownloadFile(index, wr)
  \/ \E index \in FileIndices, wr \in WriteResults :
        Enter /\ EraseFile(index, wr)
  \/ \E posix_time \in PosixTimes, wr \in WriteResults :
        Enter /\ SetTime(posix_time, wr)
  \/ CallbackReturns
  \/ \E entry \in EntryPoints : Reenter(entry)
  \/ Return

SpecBusy == Init /\ [][NextBusy]_<<vars, busyVars>>

(* --------------------------- single functions -------------------------- *)

\* The specifications below apply one function of the library to inputs
\* drawn from a bounded set; no manager exists in them.
NoManager ==
  /\ command_ = NoCommand
  /\ response_ = NoCommand
  /\ events = << >>
  /\ op = "new"
  /\ arg = << >>
  /\ prev = [command_ |-> NoCommand, response_ |-> NoCommand, started |-> FALSE]
  /\ finished = NoCommand
  /\ started = FALSE
  /\ aborted = FALSE
  /\ waits = 0
  /\ busy_ = FALSE
  /\ call = "idle"
  /\ at = 0
  /\ nested = << >>


\* Packets a caller may make: every sequence number, payloads of every
\* length VLMakePacket admits, a few command ids.
CommandIds == {0, kCommandSetTime, kCommandErase, kCommandDownloadReply, 65535}

Payloads ==
  UNION {{Fill(n, 0), Fill(n, 255), [i \in 1..n |-> (37 * i) % 256]} :
           n \in 0..(kPacketMaxLength - kPacketOffsetPayload)}

PacketInputs == (0..kVLSeqnoEnd) \X CommandIds \X Payloads

InitPacket ==
  /\ NoManager
  /\ fn = "none"
  /\ input \in PacketInputs
  /\ output = << >>

\* output: the VLPacket made of input.
MakePacket ==
  /\ fn = "none"
  /\ fn' = "VLMakePacket"
  /\ output' = VLMakePacket(input[1], input[2], input[3])
  /\ UNCHANGED <<vars, busyVars, input>>

\* output: the bytes VLWritePacket puts in dst.
WritePacketBytes ==
  /\ fn = "VLMakePacket"
  /\ fn' = "VLWritePacket"
  /\ output' = VLWritePacket(output)
  /\ UNCHANGED <<vars, busyVars, input>>

\* output: what VLReadPacket returns and leaves in the caller's packet.
ReadPacketBytes ==
  /\ fn = "VLWritePacket"
  /\ fn' = "VLReadPacket"
  /\ \E uninit \in UninitBytes : output' = VLReadPacket(output, uninit)
  /\ UNCHANGED <<vars, busyVars, input>>

NextPacket ==
  \/ MakePacket
  \/ WritePacketBytes
  \/ ReadPacketBytes

SpecPacket == InitPacket /\ [][NextPacket]_<<vars, busyVars, fnVars>>

\* Valid packets of which one byte is then changed in transit.
CorruptInputs ==
  {<< 1, kCommandErase, << 1, 0 >> >>,
   << kVLSeqnoEnd, kCommandSetTime, << >> >>,
   << 0, kCommandDownloadReply, Fill(3, 255) >>}

InitCorrupt ==
  /\ NoManager
  /\ fn = "none"
  /\ input \in CorruptInputs
  /\ output = << >>

\* One byte of the written bytes takes another value before they are read;
\* input records which byte and the value.
CorruptByte ==
  /\ fn = "VLWritePacket"
  /\ Len(input) = 3
  /\ \E i \in 1..Len(output) :
       \E v \in (0..255) \ {output[i]} :
         /\ output' = [output EXCEPT ![i] = v]
         /\ input' = input \o << i, v >>
  /\ UNCHANGED <<vars, busyVars, fn>>

NextCorrupt ==
  \/ MakePacket
  \/ WritePacketBytes
  \/ CorruptByte
  \/ ReadPacketBytes

SpecCorrupt == InitCorrupt /\ [][NextCorrupt]_<<vars, busyVars, fnVars>>

\* Clock values on both sides of the ANT epoch, of 2^31, of 2^32 and of the
\* epoch + 2^32, as << high part, low 16 bits >>.
WidePosixTimes ==
  {kAntEpoch \div 65536, (kAntEpoch \div 65536) + 1, 1600000000 \div 65536,
   32767, 32768, 65535, 65536, (kAntEpoch \div 65536) + 65535,
   (kAntEpoch \div 65536) + 65536, (kAntEpoch \div 65536) + 65537}
    \X {0, (kAntEpoch % 65536) - 1, kAntEpoch % 65536,
        (kAntEpoch % 65536) + 1, 65535}

InitTime ==
  /\ NoManager
  /\ fn = "none"
  /\ input \in WidePosixTimes
  /\ output = << >>

NextTime ==
  \/ /\ fn = "none"
     /\ fn' = "VLGetVivaTimeFromPosix"
     /\ output' = VLGetVivaTimeFromPosixWide(input)
     /\ UNCHANGED <<vars, busyVars, input>>
  \/ /\ fn = "VLGetVivaTimeFromPosix"
     /\ fn' = "VLGetPosixTimeFromViva"
     /\ output' = VLGetPosixTimeFromViva(output)
     /\ UNCHANGED <<vars, busyVars, input>>

SpecTime == InitTime /\ [][NextTime]_<<vars, busyVars, fnVars>>

\* Directory blobs: a header, up to MaxEntries entries in any order and
\* with repeated indices, and a tail shorter than an entry; and blobs
\* shorter than a header.
RawHeader(version) == << version, 16, 0 >> \o Fill(13, 0)

RawEntry(index, length) ==
  VLWriteLittleInt16(index) \o << 128, 4, index, 0, 0, 96 >>
    \o VLWriteLittleInt32(U32(0, length)) \o << 0, 0, 0, 0 >>

RawEntries == {RawEntry(index, length) : index \in 1..3, length \in {0, 5}}

RECURSIVE EntryLists(_)
EntryLists(n) ==
  IF n = 0 THEN {<< >>}
  ELSE LET shorter == EntryLists(n - 1)
       IN  shorter \cup {l \o e : l \in shorter, e \in RawEntries}

Blobs ==
  {h \o l \o t : h \in {RawHeader(1), RawHeader(2)},
                 l \in EntryLists(MaxEntries),
                 t \in {<< >>, << 9 >>, Fill(15, 9)}}
    \cup {<< >>, SubSeq(RawHeader(1), 1, 8)}

InitDirectory ==
  /\ NoManager
  /\ fn = "none"
  /\ input \in Blobs
  /\ output = << >>

\* The completion callback of a directory download runs on the blob.
NextDirectory ==
  /\ fn = "none"
  /\ fn' = "on_finish"
  /\ \E debug \in BOOLEAN, overread \in UninitBytes :
       output' = DownloadDirectoryOnFinish(kDirectoryIndex, input, debug,
                                           overread)
  /\ UNCHANGED <<vars, busyVars, input>>

SpecDirectory == InitDirectory /\ [][NextDirectory]_<<vars, busyVars, fnVars>>

\* Sequences of sequence numbers of the packets given to a burst: every
\* sequence of up to MaxBurst packets, two full turns of the ring with the
\* terminal packet, from seqno 1 and from seqno 0, and each of these two
\* with one packet given another seqno.
RECURSIVE SeqnoLists(_)
SeqnoLists(n) ==
  IF n = 0 THEN {<< >>}
  ELSE LET shorter == SeqnoLists(n - 1)
       IN  shorter \cup {Append(l, seqno) : l \in shorter, seqno \in 0..kVLSeqnoEnd}

Ring == << 1, 2, 3, 4, 5, 6, 1, 2, 3, 4, 5, 6, kVLSeqnoEnd >>

Replacements(l) ==
  {[l EXCEPT ![i] = seqno] : i \in 1..Len(l), seqno \in 0..kVLSeqnoEnd}

BurstInputs ==
  SeqnoLists(MaxBurst) \cup Replacements(Ring)
    \cup Replacements(<< kVLSeqnoStart >> \o Ring)

\* output: the state of the Burst made by Burst() and of every Burst that
\* ReadPacket returned since.
InitBurst ==
  /\ NoManager
  /\ fn = "Burst"
  /\ input \in BurstInputs
  /\ output = << kSeqnoUninitialized >>

\* The next packet of input is read by the last Burst.
NextBurst ==
  LET n == Len(output)
  IN  /\ n <= Len(input)
      /\ fn' = "ReadPacket"
      /\ output' = Append(output,
                          BurstReadPacket(output[n],
                            FromDevice(input[n], kCommandDownloadReply, << 0 >>)))
      /\ UNCHANGED <<vars, busyVars, input>>

SpecBurst == InitBurst /\ [][NextBurst]_<<vars, busyVars, fnVars>>

(* ------------------------------ properties ----------------------------- *)

ResultEventNames ==
  {"did_parse_directory_entry", "did_finish_parsing_directory",
   "did_download_file", "did_erase_file", "did_set_time"}

IssueOps == {"download_directory", "download_file", "erase_file", "set_time"}

\* The notify_value call just made is the one in which a command reported
\* completion.
Completed == op = "notify_value" /\ finished # NoCommand

\* The same, for a command whose write_value succeeded (the wait was entered).
CompletedWait == Completed /\ started

\* The index fields of the 16-byte records that follow the 16-byte header.
RecordIndices(buf) ==
  {buf[(16 * k) + 1] + (256 * buf[(16 * k) + 2]) :
     k \in 1..((Len(buf) \div 16) - 1)}

\* C1: the events of a command come in the order write_value,
\* did_start_waiting, ..., did_finish_waiting: the call that issues a command
\* emits write_value first and did_start_waiting next, and did_finish_waiting
\* is emitted only for a command whose did_start_waiting was emitted.
C1_StartBeforeFinish ==
  /\ op \in IssueOps =>
       /\ events[1].ev = "write_value"
       /\ \A i \in 1..Len(events) :
            events[i].ev = "did_start_waiting" => i = 2
  /\ \A i \in 1..Len(events) : events[i].ev = "did_finish_waiting" => started

\* C2: when a download completes inside notify_value its result callbacks
\* come before did_finish_waiting, which is last: did_download_file(index,
\* bytes) for a file; for a directory one did_parse_directory_entry per entry
\* index of the blob, then did_finish_parsing_directory (or the parse error).
C2_ResultsBeforeFinish ==
  (Completed /\ finished.kind = "download") =>
    /\ Len(events) >= 2
    /\ events[Len(events)] = DidFinishWaiting
    /\ Count(events, "did_finish_waiting") = 1
    /\ IF finished.on_finish = "file"
       THEN events = << DidDownloadFile(finished.index, finished.buf_),
                        DidFinishWaiting >>
       ELSE LET n == Len(events) - 2
            IN  \/ /\ n = 0
                   /\ events[1] = DidError(kVLManagerErrorBadHeader,
                                           "Error parsing directory")
                \/ /\ events[n + 1] = DidFinishParsingDirectory
                   /\ \A i \in 1..n : events[i].ev = "did_parse_directory_entry"
                   /\ {events[i].entry.index : i \in 1..n}
                        = RecordIndices(finished.buf_)
                   /\ n = Cardinality(RecordIndices(finished.buf_))

C2_Witness ==
  /\ Completed
  /\ finished.kind = "download"
  /\ finished.on_finish = "directory"
  /\ events[1].ev = "did_parse_directory_entry"

\* C3 as stated: in the notify_value call that completes a download or an
\* erase, did_finish_waiting is emitted before the completion callback.
C3_FinishBeforeCallback ==
  (CompletedWait /\ finished.kind \in {"download", "erase"}) =>
    \A i, j \in 1..Len(events) :
      (events[i].ev = "did_finish_waiting" /\ events[j].ev \in ResultEventNames)
        => i < j

\* C3 amended: in the notify_value call that completes a download or an
\* erase, the events of the completion callback (emitted by maybe_finish)
\* come first, then did_finish_waiting, then the reply-ack write_value when
\* should_ack_reply, and the reply slot is empty afterwards.
C3_CallbackBeforeFinish ==
  (Completed /\ finished.kind \in {"download", "erase"}) =>
    \E k \in 1..Len(events) :
      /\ events[k] = DidFinishWaiting
      /\ \A i \in 1..(k - 1) :
           events[i].ev \in ResultEventNames \cup {"did_error"}
      /\ IF finished.kind = "erase"
         THEN /\ Len(events) > k
              /\ events[k + 1].ev = "write_value"
              /\ \A i \in (k + 2)..Len(events) : events[i].ev = "did_error"
         ELSE Len(events) = k
      /\ response_ = NoCommand

C3_Witness ==
  /\ Completed
  /\ finished.kind = "download"
  /\ Len(events) = 2
  /\ events[1].ev = "did_download_file"
  /\ events[2] = DidFinishWaiting

\* C4: at most one of the simple command slot and the reply command slot is
\* non-null.
C4_AtMostOneSlot == command_ = NoCommand \/ response_ = NoCommand

C4_Witness ==
  /\ op = "set_time"
  /\ prev.response_ # NoCommand
  /\ command_ # NoCommand
  /\ response_ = NoCommand

\* C5: after the notify_value call in which a command completes, no command
\* is in flight.
C5_DestroyedOnCompletion ==
  CompletedWait => (command_ = NoCommand /\ response_ = NoCommand)

\* C6: when an erase completes (ack 0x840b, then reply 0x050b with payload
\* [0]), did_erase_file(index, true) is emitted exactly once.
C6_EraseReportsSuccess ==
  (CompletedWait /\ finished.kind = "erase") =>
    Cardinality({i \in 1..Len(events) :
                   events[i] = DidEraseFile(finished.index, TRUE)}) = 1

\* C7: when an erase completes, exactly one packet is written, the
\* acknowledgement of 0x050b (cmd 0x850b, seqno 7, no payload, host to
\* device), and did_start_waiting is not emitted; when a download completes
\* nothing is written.
C7_ReplyAck ==
  Completed =>
    /\ finished.kind = "erase" =>
         /\ Count(events, "write_value") = 1
         /\ \E i \in 1..Len(events) :
              events[i] = WriteValue(<< 244, 0, 3, 1, 11, 133 >>)
         /\ Count(events, "did_start_waiting") = 0
    /\ finished.kind = "download" => Count(events, "write_value") = 0

C7_Witness ==
  /\ Completed
  /\ finished.kind = "erase"
  /\ Count(events, "write_value") = 1

C9_SetTimeDoneAfterFirstPacket ==
  (/\ op = "notify_value"
   /\ prev.command_.kind = "set_time"
   /\ ~prev.command_.has_ack
   /\ prev.response_ = NoCommand
   /\ started
   /\ \A i \in 1..Len(events) :
        ~(events[i].ev = "did_error" /\ events[i].code = kVLManagerErrorBadHeader))
    => /\ \E i \in 1..Len(events) : events[i].ev = "did_set_time"
       /\ command_ = NoCommand

\* C10: notify_value with both slots empty emits exactly one
\* did_error(Unexpected, ...) and nothing else, and changes no state.
C10_UnexpectedOnly ==
  (op = "notify_value" /\ prev.command_ = NoCommand /\ prev.response_ = NoCommand)
    => /\ Len(events) = 1
       /\ events[1].ev = "did_error"
       /\ events[1].code = kVLManagerErrorUnexpected
       /\ command_ = NoCommand
       /\ response_ = NoCommand
       /\ started = prev.started
       /\ finished = NoCommand
       /\ ~aborted

C10_Witness ==
  /\ op = "notify_value"
  /\ prev.command_ = NoCommand
  /\ prev.response_ = NoCommand
  /\ events = UnexpectedValue

\* The framing conditions as the interface states them: length outside 6..20,
\* length different from 6 + bytes[1], or the low five CRC bits wrong.
FramingFails(value) ==
  \/ Len(value) < 6
  \/ Len(value) > 20
  \/ Len(value) # 6 + value[2]
  \/ value[1] % 32 # crc(SubSeq(value, 2, Len(value))) % 32

\* The values of the transport that fail framing.
BadFrames == {value \in Values : FramingFails(value)}

\* The command the call just made found in flight.
PrevInFlight ==
  IF prev.response_ # NoCommand THEN prev.response_ ELSE prev.command_

\* C11: with a command in flight, notify_value of bytes that fail framing
\* emits exactly did_error(BadHeader, ...) and leaves both slots (ack flag,
\* burst state, buffer) as they were.
C11_BadFrameLeavesCommand ==
  (/\ op = "notify_value"
   /\ arg \in BadFrames
   /\ (prev.command_ # NoCommand \/ prev.response_ # NoCommand))
    => /\ events = << DidError(kVLManagerErrorBadHeader,
                               CommandName(PrevInFlight)
                                 \o ": invalid value notification") >>
       /\ command_ = prev.command_
       /\ response_ = prev.response_

C11_Witness ==
  /\ op = "notify_value"
  /\ arg = CorruptCrc(ReplyDownload(kVLSeqnoEnd, Fill(14, 0)))
  /\ events = << DidError(kVLManagerErrorBadHeader,
                          "download command: invalid value notification") >>
  /\ response_.kind = "download"
  /\ response_.has_ack
  /\ Len(response_.buf_) > 0
  /\ response_ = prev.response_

SeqnoOf(value) == value[1] \div 32

BadPayloadOf(c) ==
  << DidError(kVLManagerErrorBadPayload,
              CommandName(c) \o ": invalid value notification") >>

\* C12: a well-framed packet the in-flight command rejects gives exactly
\* did_error(BadPayload, ...) and leaves the command installed and unchanged;
\* a download reply out of sequence (its seqno neither the expected one nor
\* 7) is rejected so; and a reply with seqno 1 delivered at the start of the
\* reply, or when 1 is expected, never leaves 3 expected, so that a reply
\* with seqno 3 that follows it is out of sequence and is not appended.
C12_RejectKeepsCommand ==
  op = "notify_value" =>
    /\ (\E i \in 1..Len(events) :
          events[i].ev = "did_error"
            /\ events[i].code = kVLManagerErrorBadPayload)
         => /\ events = BadPayloadOf(PrevInFlight)
            /\ command_ = prev.command_
            /\ response_ = prev.response_
            /\ PrevInFlight # NoCommand
    /\ (/\ prev.response_.kind = "download"
        /\ prev.response_.has_ack
        /\ arg \in DownloadReplies)
         => /\ SeqnoOf(arg) \notin {prev.response_.burst_, kVLSeqnoEnd}
                 => /\ events = BadPayloadOf(prev.response_)
                    /\ response_ = prev.response_
            /\ (SeqnoOf(arg) = 1 /\ prev.response_.burst_ \in {0, 1})
                 => (response_.kind = "download" /\ response_.burst_ # 3)

\* A reply with seqno 3 arrives when seqno 2 is expected (after 0 and 1).
C12_Witness ==
  /\ op = "notify_value"
  /\ arg = ReplyDownload(3, ChunkZero)
  /\ prev.response_.kind = "download"
  /\ prev.response_.has_ack
  /\ prev.response_.burst_ = 2
  /\ Len(prev.response_.buf_) = 16
  /\ events = BadPayloadOf(prev.response_)
  /\ response_ = prev.response_

\* C13: when write_value returns a negative value in the call that issues a
\* command (started is FALSE exactly then), the call emits write_value and
\* then did_error(Unexpected, "WriteValue"), and no did_start_waiting.
C13_WriteFailureNoWait ==
  (op \in IssueOps /\ ~started) =>
    /\ Len(events) = 2
    /\ events[1].ev = "write_value"
    /\ events[2] = DidError(kVLManagerErrorUnexpected, "WriteValue")
    /\ Count(events, "did_start_waiting") = 0

C13_Witness ==
  /\ op = "erase_file"
  /\ ~started
  /\ events[2] = DidError(kVLManagerErrorUnexpected, "WriteValue")

\* The slots hold exactly the command that the entry point op constructs.
OnlyNewCommand ==
  CASE op = "download_directory" ->
         /\ command_ = NoCommand
         /\ response_ = DownloadCommand(kDirectoryIndex, "directory")
    [] op = "download_file" ->
         /\ command_ = NoCommand
         /\ \E index \in FileIndices : response_ = DownloadCommand(index, "file")
    [] op = "erase_file" ->
         /\ command_ = NoCommand
         /\ \E index \in FileIndices : response_ = EraseCommand(index)
    [] op = "set_time" ->
         /\ response_ = NoCommand
         /\ \E posix_time \in PosixTimes :
              command_ = SetTimeCommand(VLGetVivaTimeFromPosix(posix_time))
    [] OTHER -> FALSE

\* C14: a command issued while another is pending replaces it silently: the
\* call emits only the new command's write_value and did_start_waiting (or
\* the "WriteValue" error of its own failed write), no did_finish_waiting and
\* no other did_error, and afterwards the slots hold the new command alone,
\* in its initial state.
C14_NewCommandReplaces ==
  (op \in IssueOps /\ PrevInFlight # NoCommand) =>
    /\ Len(events) = 2
    /\ events[1].ev = "write_value"
    /\ events[2] = (IF started
                    THEN DidStartWaiting
                    ELSE DidError(kVLManagerErrorUnexpected, "WriteValue"))
    /\ OnlyNewCommand

C14_Witness ==
  /\ op = "download_file"
  /\ prev.command_.kind = "set_time"
  /\ ~prev.command_.has_ack
  /\ started
  /\ command_ = NoCommand
  /\ response_.kind = "download"

\* C15: notify_timeout with a set_time pending emits did_error(Unexpected,
\* "set time command: timeout waiting for command") and then
\* did_finish_waiting, and leaves no command in flight.
C15_TimeoutDropsSimple ==
  (op = "notify_timeout" /\ prev.command_.kind = "set_time") =>
    /\ events = << DidError(kVLManagerErrorUnexpected,
                            "set time command: timeout waiting for command"),
                   DidFinishWaiting >>
    /\ command_ = NoCommand
    /\ response_ = NoCommand

C15_Witness ==
  /\ op = "notify_timeout"
  /\ prev.command_.kind = "set_time"
  /\ ~prev.command_.has_ack
  /\ prev.started
  /\ Len(events) = 2

\* C16: notify_timeout with a download or an erase pending emits nothing and
\* leaves the reply command installed and unchanged.
C16_TimeoutKeepsReply ==
  (op = "notify_timeout" /\ prev.response_ # NoCommand) =>
    /\ events = << >>
    /\ response_ = prev.response_
    /\ command_ = prev.command_

C16_Witness ==
  /\ op = "notify_timeout"
  /\ prev.response_.kind = "download"
  /\ prev.response_.has_ack
  /\ Len(prev.response_.buf_) > 0
  /\ response_ = prev.response_
  /\ events = << >>

\* A download reply arrives for a download whose ack has been accepted.
ReplyDelivered ==
  /\ op = "notify_value"
  /\ arg \in DownloadReplies
  /\ prev.response_.kind = "download"
  /\ prev.response_.has_ack

PayloadOf(value) == SubSeq(value, 7, Len(value))

\* C17 as stated: a download reply with seqno 0 is rejected in every burst
\* state, the empty one included: did_error(BadPayload, ...) and the buffer
\* unchanged.
C17_SeqnoZeroRejected ==
  (ReplyDelivered /\ SeqnoOf(arg) = 0) =>
    /\ events = BadPayloadOf(prev.response_)
    /\ response_ = prev.response_

\* C17 amended: seqno 0 is the first sequence number of a reply burst. In
\* the empty burst state a reply with seqno 0 is accepted, its payload
\* appended and 1 expected next; in every other burst state it is rejected
\* (BadPayload) and the buffer is unchanged.
C17_SeqnoZeroOnlyFirst ==
  /\ \A b \in 0..kSeqnoInvalid :
       IsValid(BurstReadPacket(b, Parsed[ReplyDownload(0, ChunkZero)][0].packet))
         <=> b = kSeqnoUninitialized
  /\ (ReplyDelivered /\ SeqnoOf(arg) = 0) =>
       IF IsEmpty(prev.response_.burst_)
       THEN /\ events = << >>
            /\ response_ = [prev.response_ EXCEPT
                              !.burst_ = 1,
                              !.buf_ = @ \o PayloadOf(arg)]
       ELSE /\ events = BadPayloadOf(prev.response_)
            /\ response_ = prev.response_

C17_Witness ==
  /\ ReplyDelivered
  /\ arg = ReplyDownload(0, ChunkHeader)
  /\ IsEmpty(prev.response_.burst_)
  /\ response_.kind = "download"
  /\ response_.buf_ = ChunkHeader
  /\ response_.burst_ = 1

\* The events by which the on_finish of a download shows: the file callback,
\* or the end of the directory parse (finished or failed).
OnFinishCalls(evs) ==
  Cardinality({i \in 1..Len(evs) :
    \/ evs[i].ev \in {"did_download_file", "did_finish_parsing_directory"}
    \/ evs[i] = DidError(kVLManagerErrorBadHeader, "Error parsing directory")})

Reports(ev) == \E i \in 1..Len(events) : events[i] = ev

\* C19: an erase that did not succeed reports false: in the notify_value call
\* that delivers a reply 0x050b with a non-zero status byte to an
\* acknowledged erase, and in the notify_timeout call that ends the wait of
\* an erase whose reply never came, did_erase_file(index, false) is emitted
\* and did_erase_file(index, true) is not.
C19_EraseReportsFailure ==
  LET erase == prev.response_
      failed == \/ /\ op = "notify_value"
                   /\ erase.has_ack
                   /\ ~erase.is_finished
                   /\ arg = ReplyErase(1)
                \/ op = "notify_timeout" /\ prev.started
  IN  (erase.kind = "erase" /\ failed) =>
        /\ Reports(DidEraseFile(erase.index, FALSE))
        /\ ~Reports(DidEraseFile(erase.index, TRUE))

\* C20: in a debug build the busy flag is true at every point of an
\* entry-point call, each of its delegate callbacks included, and false
\* after every return, the early error returns included; an entry point
\* called from within a delegate callback finds the flag true and its
\* assertion fails.
C20_BusyGuard ==
  /\ call = "running" => busy_
  /\ call = "idle" => ~busy_ /\ nested = << >>
  /\ nested # << >> =>
       /\ nested[1] \in EntryPoints
       /\ nested[2] = "asserted"
       /\ aborted
       /\ at < Len(events)

\* The delegate re-enters set_time from the did_error callback of the early
\* return of a notify_value that no command was waiting for.
C20_Witness ==
  /\ nested = << "set_time", "asserted" >>
  /\ op = "notify_value"
  /\ events = UnexpectedValue
  /\ at = 0
  /\ busy_
  /\ aborted

\* C21: the bytes written for make_packet(seqno, cmd, payload) number
\* 6 + the payload length, and read_packet of them succeeds with the same
\* seqno, payload length, sender 3, receiver 1, command id and payload.
C21_PacketRoundTrip ==
  LET seqno == input[1]
      cmd == input[2]
      payload == input[3]
  IN  /\ fn = "VLWritePacket" => Len(output) = 6 + Len(payload)
      /\ fn = "VLReadPacket" =>
           /\ output.err = 0
           /\ VLPacketSeqno(output.packet) = seqno
           /\ PktPayloadLength(output.packet) = Len(payload)
           /\ PktSender(output.packet) = 3
           /\ PktReceiver(output.packet) = 1
           /\ OSReadLittleInt16(PktCmd(output.packet), 0) = cmd
           /\ SubSeq(PktPayload(output.packet), 1, Len(payload)) = payload

C21_Witness ==
  /\ fn = "VLReadPacket"
  /\ input = << 5, kCommandErase, Fill(14, 255) >>
  /\ output.err = 0
  /\ SubSeq(output.packet, 7, 20) = Fill(14, 255)

\* The bytes written for the packet input names, before any corruption.
Written == VLWritePacket(VLMakePacket(input[1], input[2], input[3]))

Corrupted == fn = "VLReadPacket" /\ Len(input) = 5

\* C22 as stated: read_packet fails on every valid packet of which one
\* byte was changed to a different value.
C22_SingleByteDetected == Corrupted => output.err # 0

\* C22 amended: a changed payload-length byte fails the length check; a
\* changed first byte fails the CRC check exactly when its low five bits
\* changed, so a change of the seqno bits alone is read successfully, with
\* another seqno; a changed later byte fails the CRC check or is read
\* successfully, and of the 255 values it can change to exactly 7 are read
\* successfully.
C22_SingleByteDetection ==
  /\ Corrupted =>
       LET i == input[4]
           v == input[5]
       IN  /\ i = 2 => output.err = -1
           /\ i = 1 => output.err = (IF And1f(v) = And1f(Written[1])
                                     THEN 0 ELSE -2)
           /\ i >= 3 => output.err \in {0, -2}
  /\ (fn = "VLWritePacket" /\ Len(input) = 3) =>
       \A i \in 3..Len(output) :
         Cardinality({v \in (0..255) \ {output[i]} :
                        VLReadPacket([output EXCEPT ![i] = v], 0).err = 0}) = 7

C22_Witness ==
  /\ Corrupted
  /\ input[4] = 1
  /\ output.err = 0
  /\ VLPacketSeqno(output.packet) # input[1]

\* Order of two times kept as << high part, low 16 bits >>.
TimeGe(t, u) == t[1] > u[1] \/ (t[1] = u[1] /\ t[2] >= u[2])

AntEpoch == << kAntEpoch \div 65536, kAntEpoch % 65536 >>

\* C23 as stated: to_posix(to_device(t)) = t for every t >= 631065600.
C23_TimeRoundTrip ==
  (fn = "VLGetPosixTimeFromViva" /\ TimeGe(input, AntEpoch)) => output = input

\* C23 amended: to_posix(to_device(t)) = t for 631065600 <= t <
\* 631065600 + 2^32; for a later t the result is t minus a multiple of 2^32.
C23_TimeRoundTripInRange ==
  (fn = "VLGetPosixTimeFromViva" /\ TimeGe(input, AntEpoch)) =>
    IF TimeGe(input, << AntEpoch[1] + 65536, AntEpoch[2] >>)
    THEN output[1] < input[1] /\ (input[1] - output[1]) % 65536 = 0
         /\ output[2] = input[2]
    ELSE output = input

\* 2^32 - 1, a time beyond 32 bits of seconds from the epoch on.
C23_Witness ==
  /\ fn = "VLGetPosixTimeFromViva"
  /\ input = << 65535, 65535 >>
  /\ output = input

\* The entries of a blob: their number, the 16 bytes of the k-th and its
\* index field.
EntryCount(data) == (Len(data) - 16) \div 16
RawEntryAt(data, k) == SubSeq(data, 16 * k + 1, 16 * k + 16)
IndexAt(data, k) == OSReadLittleInt16(RawEntryAt(data, k), 0)
BlobIndices(data) == {IndexAt(data, k) : k \in 1..EntryCount(data)}

WellFormed(data) ==
  /\ Len(data) >= 16
  /\ VLReadDirectoryHeader(data) = 16
  /\ (Len(data) - 16) % 16 = 0

ParsedBlob == fn = "on_finish" /\ WellFormed(input)

\* C24: for a well-formed blob the callback emits one
\* did_parse_directory_entry per distinct index of the blob, in ascending
\* order of index whatever the order in the blob, and then one
\* did_finish_parsing_directory.
C24_EntriesAscending ==
  ParsedBlob =>
    LET evs == output.evs
        n == Len(evs)
    IN  /\ ~output.abort
        /\ n = Cardinality(BlobIndices(input)) + 1
        /\ evs[n] = DidFinishParsingDirectory
        /\ \A i \in 1..(n - 1) :
             /\ evs[i].ev = "did_parse_directory_entry"
             /\ evs[i].entry.index \in BlobIndices(input)
             /\ \A j \in (i + 1)..(n - 1) :
                  evs[i].entry.index < evs[j].entry.index

C24_Witness ==
  /\ ParsedBlob
  /\ EntryCount(input) = 3
  /\ << IndexAt(input, 1), IndexAt(input, 2), IndexAt(input, 3) >> = << 3, 1, 2 >>
  /\ Len(output.evs) = 4
  /\ << output.evs[1].entry.index, output.evs[2].entry.index,
        output.evs[3].entry.index >> = << 1, 2, 3 >>

\* The places in a blob of the entries with a given index.
PlacesOf(data, index) == {k \in 1..EntryCount(data) : IndexAt(data, k) = index}
FirstOf(places) == CHOOSE k \in places : \A j \in places : k <= j
LastOf(places) == CHOOSE k \in places : \A j \in places : k >= j

HasDuplicate(data) ==
  \E index \in BlobIndices(data) : Cardinality(PlacesOf(data, index)) > 1

Reported(i) == output.evs[i].entry

\* C25 as stated: of two entries of a blob with the same index the later one
\* is the one reported for the index.
C25_LastDuplicateWins ==
  (ParsedBlob /\ HasDuplicate(input)) =>
    \A i \in 1..(Len(output.evs) - 1) :
      Reported(i) = DirectoryEntryOf(
        RawEntryAt(input, LastOf(PlacesOf(input, Reported(i).index))))

\* C25 amended: of the entries of a blob with the same index the first one
\* is the one reported for the index; the later ones are dropped.
C25_FirstDuplicateWins ==
  (ParsedBlob /\ HasDuplicate(input)) =>
    \A i \in 1..(Len(output.evs) - 1) :
      Reported(i) = DirectoryEntryOf(
        RawEntryAt(input, FirstOf(PlacesOf(input, Reported(i).index))))

C25_Witness ==
  /\ ParsedBlob
  /\ EntryCount(input) = 3
  /\ RawEntryAt(input, 1) = RawEntry(2, 0)
  /\ RawEntryAt(input, 2) = RawEntry(1, 5)
  /\ RawEntryAt(input, 3) = RawEntry(2, 5)
  /\ Len(output.evs) = 3
  /\ Reported(2) = DirectoryEntryOf(RawEntry(2, 0))

\* C26: a blob with a header and a number of further bytes that is not a
\* multiple of 16 makes the callback emit did_error(BadHeader, "Error parsing
\* directory") and nothing else: no entry and no end of parsing is reported.
C26_TailFailsParse ==
  (fn = "on_finish" /\ Len(input) >= 16 /\ (Len(input) - 16) % 16 # 0) =>
    /\ ~output.abort
    /\ output.evs = << DidError(kVLManagerErrorBadHeader,
                                "Error parsing directory") >>

C26_Witness ==
  /\ fn = "on_finish"
  /\ input = RawHeader(1) \o RawEntry(1, 0) \o RawEntry(2, 5) \o Fill(15, 9)
  /\ Len(output.evs) = 1
  /\ output.evs[1].ev = "did_error"

\* The notify_value call just made completed a directory download.
CompletedDirectory ==
  Completed /\ finished.kind = "download" /\ finished.on_finish = "directory"

Reads == 1..(Len(output) - 1)

\* C28 as stated: a burst with no packets read accepts a packet with seqno 1
\* and then expects seqno 2.
C28_StartsAtOne ==
  (fn = "ReadPacket" /\ input[1] = 1) => output[2] = 2

\* C28 amended: a burst with no packets read (expected seqno 0) accepts a
\* packet with seqno 0 and then expects seqno 1, accepts a packet with
\* seqno 7 and has then ended, and is invalid after a packet with any other
\* seqno, 1 included.
C28_StartsAtZero ==
  fn = "ReadPacket" =>
    /\ output[1] = 0
    /\ output[2] = (IF input[1] = 0 THEN 1
                    ELSE IF input[1] = 7 THEN 7 ELSE kSeqnoInvalid)

C28_Witness ==
  /\ fn = "ReadPacket"
  /\ input = << 0, 1 >>
  /\ output = << 0, 1, 2 >>

AllRead == Len(output) = Len(input) + 1

Accepted == \A k \in 1..Len(output) : IsValid(output[k])

\* The ring rule of C29: in a state expecting k in 1..6 a packet with seqno
\* k leaves the burst expecting (k mod 6) + 1, and a packet with a seqno
\* other than k and 7 leaves it invalid.
RingRule ==
  \A k \in Reads :
    output[k] \in 1..6 =>
      /\ input[k] = output[k] => output[k + 1] = (output[k] % 6) + 1
      /\ input[k] \notin {output[k], 7} => output[k + 1] = kSeqnoInvalid

\* l with one of its inner elements replaced by another value.
InnerReplaced(l) ==
  /\ Len(input) = Len(l)
  /\ \E i \in 2..(Len(l) - 1) :
       input[i] # l[i] /\ \A j \in (1..Len(l)) \ {i} : input[j] = l[j]

\* C29 as stated: the ring rule, and a burst accepts the packets with seqnos
\* 1,2,3,4,5,6,1,2,3,4,5,6,7 and is invalid after some packet when an inner
\* one of them has another seqno.
C29_RingFromOne ==
  /\ RingRule
  /\ (input = Ring /\ AllRead) => Accepted /\ HasEnded(output[Len(output)])
  /\ (InnerReplaced(Ring) /\ AllRead) => ~Accepted

\* C29 amended: the ring rule, and a burst accepts the packets with seqnos
\* 0,1,2,3,4,5,6,1,2,3,4,5,6,7 and is invalid after some packet when an
\* inner one of them has another seqno; the same packets without the first
\* are not accepted: the burst is invalid after the packet with seqno 1.
C29_RingFromZero ==
  /\ RingRule
  /\ (input = << 0 >> \o Ring /\ AllRead) =>
       Accepted /\ HasEnded(output[Len(output)])
  /\ (InnerReplaced(<< 0 >> \o Ring) /\ AllRead) => ~Accepted
  /\ (input = Ring /\ fn = "ReadPacket") => output[2] = kSeqnoInvalid

C29_Witness ==
  /\ input = << 0 >> \o Ring
  /\ output = << 0, 1, 2, 3, 4, 5, 6, 1, 2, 3, 4, 5, 6, 1, 7 >>

\* C30: a burst that has not ended and is not invalid has ended after a
\* packet with seqno 7, and a burst that has ended is invalid after any
\* further packet, one with seqno 7 included.
C30_Termination ==
  \A k \in Reads :
    /\ (~HasEnded(output[k]) /\ IsValid(output[k]) /\ input[k] = kVLSeqnoEnd)
         => HasEnded(output[k + 1])
    /\ HasEnded(output[k]) => ~IsValid(output[k + 1])

\* The third packet ends the burst early and the fourth is read after it.
C30_Witness ==
  /\ Len(output) = 5
  /\ SubSeq(input, 1, 4) = << 0, 1, kVLSeqnoEnd, 3 >>
  /\ output = << 0, 1, 2, kVLSeqnoEnd, kSeqnoInvalid >>

\* A reply in sequence: its seqno is 7 or the one the burst expects, where a
\* burst that has read nothing expects first.
InSequence(first) ==
  /\ ReplyDelivered
  /\ SeqnoOf(arg) \in
       {kVLSeqnoEnd,
        IF IsEmpty(prev.response_.burst_) THEN first ELSE prev.response_.burst_}

\* The reply just delivered was accepted: no error, its whole payload at the
\* end of the buffer, and when its seqno is 7 the download completed with
\* that buffer (handed to did_download_file for a file).
ReplyAppended ==
  LET buf == prev.response_.buf_ \o PayloadOf(arg)
  IN  IF SeqnoOf(arg) = kVLSeqnoEnd
      THEN /\ response_ = NoCommand
           /\ finished.kind = "download"
           /\ finished.buf_ = buf
           /\ finished.on_finish = "file" =>
                events = << DidDownloadFile(finished.index, buf),
                            DidFinishWaiting >>
      ELSE /\ events = << >>
           /\ response_.buf_ = buf
           /\ response_.burst_ = VLGetNextSeqno(SeqnoOf(arg))

\* C31 as stated: after the ack of a download, replies whose seqnos run
\* 1,2,...,6,1,... and end with 7 are all accepted, and the buffer handed to
\* the completion callback is their payloads in arrival order.
C31_RepliesFromOne == (InSequence(1) /\ ~aborted) => ReplyAppended

\* C31 amended: after the ack of a download, replies whose seqnos run
\* 0,1,2,...,6,1,... and end with 7 are all accepted, each appending its
\* whole payload to the buffer, and the buffer handed to the completion
\* callback is their payloads in arrival order; a first reply with seqno 1
\* is rejected (BadPayload) and appends nothing.
C31_RepliesFromZero ==
  /\ (InSequence(0) /\ ~aborted) => ReplyAppended
  /\ (ReplyDelivered /\ IsEmpty(prev.response_.burst_) /\ SeqnoOf(arg) = 1) =>
       /\ events = BadPayloadOf(prev.response_)
       /\ response_ = prev.response_

\* A file arrives in replies with seqnos 0, 1, 2 and 7.
C31_Witness ==
  /\ Completed
  /\ InSequence(0)
  /\ finished.on_finish = "file"
  /\ finished.buf_ = ChunkHeader \o ChunkZero \o ChunkEntry1 \o ChunkZero
  /\ events[1] = DidDownloadFile(finished.index, finished.buf_)

\* A well-framed value whose peers are not device to host.
WrongPeer(value) ==
  /\ value \in WellFramed
  /\ value[3] # kPeerViiiiva \/ value[4] # kPeerHost

\* C32: in the ack phase of a command, notify_value of a well-framed packet
\* that is not device to host emits exactly did_error(BadPayload, ...): the
\* ack is not marked received and no completion callback runs.
C32_WrongPeerAckRejected ==
  (/\ op = "notify_value"
   /\ WrongPeer(arg)
   /\ PrevInFlight # NoCommand
   /\ ~PrevInFlight.has_ack) =>
    /\ events = BadPayloadOf(PrevInFlight)
    /\ command_ = prev.command_
    /\ response_ = prev.response_

\* value is a device-to-host packet with cmd 0x810b whose ten payload bytes
\* echo the index and the offset of download c and announce a length that is
\* at most the requested one.
EchoesDownload(value, c) ==
  /\ value \in WellFramed
  /\ value[3] = kPeerViiiiva
  /\ value[4] = kPeerHost
  /\ SubSeq(value, 5, 6) = << 11, 129 >>
  /\ Len(value) = kPacketOffsetPayload + 10
  /\ SubSeq(value, 7, 8) = VLWriteLittleInt16(c.index)
  /\ SubSeq(value, 9, 12) = VLWriteLittleInt32(c.offset)
  /\ ~U32Gt(<< value[15] + (256 * value[16]), value[13] + (256 * value[14]) >>,
            c.length)

\* C33: a download in its ack phase marks the ack received only on a
\* device-to-host packet with cmd 0x810b that echoes its index and offset
\* and announces a length that is at most the requested one; any other
\* packet leaves it in the ack phase with an empty buffer.
C33_AckOnlyWhenEchoMatches ==
  (/\ op = "notify_value"
   /\ prev.response_.kind = "download"
   /\ ~prev.response_.has_ack
   /\ ~EchoesDownload(arg, prev.response_)) =>
    /\ response_ = prev.response_
    /\ ~response_.has_ack
    /\ response_.buf_ = << >>

\* The replies and the acks the device sends for reply commands.
DeviceReplies == DownloadReplies \cup {ReplyErase(0), ReplyErase(1)}
DeviceAcks == {AckErase} \cup {AckDownload(i) : i \in {0} \cup FileIndices}

\* C34: a reply command (download, erase) reads in two phases. Before its
\* ack is accepted a reply packet (0x030b, 0x050b) is rejected: BadPayload,
\* nothing appended, the reply not marked received. After its ack is accepted
\* an ack is rejected in the same way. The ack flag of an installed command
\* never reverts to false, no erase has its reply marked before its ack, and
\* an erase completes only in the call that delivers the reply 0x050b with
\* status 0 to an erase whose ack was accepted before.
C34_TwoPhases ==
  LET c == prev.response_
  IN  /\ (op = "notify_value" /\ c # NoCommand /\ ~c.has_ack
            /\ arg \in DeviceReplies) =>
           /\ events = BadPayloadOf(c)
           /\ response_ = c
      /\ (op = "notify_value" /\ c # NoCommand /\ c.has_ack
            /\ arg \in DeviceAcks) =>
           /\ events = BadPayloadOf(c)
           /\ response_ = c
      /\ (op \notin IssueOps /\ c # NoCommand /\ c.has_ack) =>
           (response_ = NoCommand \/ response_.has_ack)
      /\ response_.kind = "erase" =>
           (response_.is_finished => response_.has_ack)
      /\ (Completed /\ finished.kind = "erase") =>
           /\ c.kind = "erase"
           /\ c.has_ack
           /\ ~c.is_finished
           /\ arg = ReplyErase(0)

\* The reply of an erase arrives before its ack.
C34_Witness ==
  /\ op = "notify_value"
  /\ prev.response_.kind = "erase"
  /\ ~prev.response_.has_ack
  /\ arg = ReplyErase(0)
  /\ events = BadPayloadOf(prev.response_)
  /\ ~response_.is_finished

\* C35: in every prefix of the events emitted so far, did_finish_waiting has
\* been emitted at most as often as did_start_waiting.
C35_WaitingBalance ==
  LET before == (waits - Count(events, "did_start_waiting"))
                  + Count(events, "did_finish_waiting")
  IN  \A k \in 0..Len(events) :
        (before + Count(SubSeq(events, 1, k), "did_start_waiting"))
          - Count(SubSeq(events, 1, k), "did_finish_waiting") >= 0

\* The reply lengths announced by the acks that download c accepts, among
\* the values the transport delivers.
AnnouncedTo(c) ==
  {OSReadLittleInt32(PktPayload(Parsed[x[1]][x[2]].packet), 6) :
     x \in {y \in Values \X UninitBytes :
              /\ Parsed[y[1]][y[2]].err = 0
              /\ DownloadReadAck([c EXCEPT !.has_ack = FALSE],
                                 Parsed[y[1]][y[2]].packet).ret = 0}}

\* C36: the buffer of a file download (index not 0), in flight or handed to
\* did_download_file, is never longer than the reply length announced in the
\* ack it accepted.
C36_LengthBound ==
  \A c \in {response_, finished} :
    (c.kind = "download" /\ c.on_finish = "file" /\ c.has_ack) =>
      \E length \in AnnouncedTo(c) : ~U32Gt(U32(0, Len(c.buf_)), length)

\* C37: when the reply that ends a directory download leaves fewer than 16
\* bytes in the buffer, the call emits did_error(BadHeader, "Error parsing
\* directory") and then did_finish_waiting, and the assertion of the header
\* reader that 16 bytes are available does not fail.
C37_ShortDirectoryReported ==
  (/\ ReplyDelivered
   /\ prev.response_.on_finish = "directory"
   /\ SeqnoOf(arg) = kVLSeqnoEnd
   /\ Len(prev.response_.buf_ \o PayloadOf(arg)) < 16) =>
    /\ ~aborted
    /\ events = << DidError(kVLManagerErrorBadHeader, "Error parsing directory"),
                   DidFinishWaiting >>

\* The command ids the manager writes, each with the length of its payload:
\* 0x010b, 0x040b, 0x0108 and the reply-ack 0x850b.
OutboundShapes == {<< 267, 10 >>, << 1035, 2 >>, << 264, 4 >>, << 34059, 0 >>}

\* C38: every value the manager passes to write_value is a valid packet from
\* host to device: sender 3, receiver 1, seqno 7, 6 + payload_length bytes
\* and at most 20, the low five bits of the first byte the CRC of the rest,
\* and a command id of 0x010b (10 payload bytes), 0x040b (2), 0x0108 (4) or
\* the reply-ack 0x850b (none).
C38_OutboundWellFormed ==
  \A i \in 1..Len(events) :
    events[i].ev = "write_value" =>
      LET value == events[i].value
      IN  /\ Len(value) >= kPacketMinLength
          /\ Len(value) <= kPacketMaxLength
          /\ Len(value) = kPacketOffsetPayload + value[2]
          /\ value[3] = kPeerHost
          /\ value[4] = kPeerViiiiva
          /\ value[1] \div 32 = kVLSeqnoEnd
          /\ value[1] % 32 = And1f(crc(SubSeq(value, 2, Len(value))))
          /\ VLReadPacket(value, 0).err = 0
          /\ << value[5] + (256 * value[6]), value[2] >> \in OutboundShapes

\* The reply-ack of an erase is written.
C38_Witness ==
  /\ op = "notify_value"
  /\ \E i \in 1..Len(events) :
       /\ events[i].ev = "write_value"
       /\ SubSeq(events[i].value, 5, 6) = << 11, 133 >>
       /\ Len(events[i].value) = kPacketMinLength

\* What a command was issued with, which no packet changes.
IssuedAs(c) ==
  IF c.kind = "download" THEN << c.kind, c.index, c.on_finish >>
  ELSE IF c.kind = "erase" THEN << c.kind, c.index >>
  ELSE IF c.kind = "set_time" THEN << c.kind, c.time >>
  ELSE << c.kind >>

\* The result callback ev belongs to command c, which completes with the
\* value just delivered.
BelongsTo(ev, c) ==
  CASE ev.ev = "did_download_file" ->
         /\ c.kind = "download"
         /\ c.on_finish = "file"
         /\ ev.index = c.index
         /\ ev.data = c.buf_ \o PayloadOf(arg)
    [] ev.ev \in {"did_parse_directory_entry", "did_finish_parsing_directory"} ->
         /\ c.kind = "download"
         /\ c.on_finish = "directory"
    [] ev.ev = "did_erase_file" -> c.kind = "erase" /\ ev.index = c.index
    [] ev.ev = "did_set_time" -> c.kind = "set_time"
    [] OTHER -> TRUE

\* C39: no result callback of a command is emitted once another command has
\* been issued. The call that issues a command leaves that command alone in
\* the slots, in its initial state (no ack, empty buffer), and emits no
\* result callback; no other call puts a command in a slot or changes what
\* the installed one was issued with; and every result callback is emitted
\* by notify_value for the command that was installed when the value came,
\* with data received since that command was issued.
C39_NoStaleResults ==
  /\ op \in IssueOps =>
       /\ OnlyNewCommand
       /\ \A i \in 1..Len(events) : events[i].ev \notin ResultEventNames
  /\ op \in {"notify_value", "notify_timeout"} =>
       /\ command_ = NoCommand \/ IssuedAs(command_) = IssuedAs(prev.command_)
       /\ response_ = NoCommand \/ IssuedAs(response_) = IssuedAs(prev.response_)
  /\ op = "notify_timeout" =>
       \A i \in 1..Len(events) : events[i].ev \notin ResultEventNames
  /\ op = "notify_value" =>
       \A i \in 1..Len(events) : BelongsTo(events[i], PrevInFlight)

\* A download that has received data is discarded by issuing another one.
C39_Witness ==
  /\ op = "download_file"
  /\ prev.response_.kind = "download"
  /\ prev.response_.has_ack
  /\ Len(prev.response_.buf_) > 0
  /\ prev.response_.index # response_.index
  /\ response_.buf_ = << >>
  /\ ~response_.has_ack

====
